---- MODULE Spec2Model ----
(***************************************************************************)
(* streamEye: a main thread that segments stdin into JPEG frames,         *)
(* publishes each frame through the shared buffer jpeg_buf/jpeg_size under *)
(* jpeg_mutex + jpeg_cond, accepts TCP clients and keeps them in the       *)
(* clients registry; one session thread per client.                        *)
(*                                                                         *)
(* Bytes are numbers 0..255.  jpeg_buf is kept as the sequence of its live *)
(* bytes: [0, jpeg_size) while accumulating, and [0, n) between a          *)
(* separator hit and the memmove of the remainder (n the accumulated size  *)
(* at the hit).  Bytes outside that range are never read by the program.   *)
(***************************************************************************)
EXTENDS Integers, Sequences, FiniteSets, TLC

\* ------------------------------------------------------------ constants

\* streameye.h: the sizes of the two buffers, scaled down.  The values keep
\* JPEG_BUF_LEN = 4 * INPUT_BUF_LEN, so that the accumulator can grow past the
\* 2 * INPUT_BUF_LEN bytes the search looks back over.
INPUT_BUF_LEN == 4
JPEG_BUF_LEN == 16

\* streameye.h: the JPEG markers "\xFF\xD8" and "\xFF\xD9"
JPEG_START == <<255, 216>>
JPEG_END == <<255, 217>>

\* bounds of the model
MaxClients == 2

Clients == 1..MaxClients
\* thread identities used as mutex owners: the sessions are 1..MaxClients
MainThread == MaxClients + 1
Unlocked == MaxClients + 2

MIN(a, b) == IF a < b THEN a ELSE b

\* ------------------------------------------------------------ segmenter

Drop(s, n) == SubSeq(s, n + 1, Len(s))
Take(s, n) == SubSeq(s, 1, n)

\* memmem(hay, haylen, needle, needlelen): offset of the first occurrence of
\* needle in hay, -1 for NULL.  An empty needle matches at offset 0.
memmem(hay, needle) ==
    LET hits == {o \in 0..(Len(hay) - Len(needle)) :
                    SubSeq(hay, o + 1, o + Len(needle)) = needle}
    IN  IF hits = {} THEN -1
        ELSE CHOOSE o \in hits : \A p \in hits : o <= p

\* mutant: the chunk may fill the buffer to its last byte
OverflowsAtCapacity(size, jsize) == size > JPEG_BUF_LEN - jsize

\* line 366: the chunk does not fit
Overflows(size, jsize) == size > JPEG_BUF_LEN - 1 - jsize

\* mutant: the search looks back over one input buffer only
FindSepOneChunk(buf, jsize, separator) ==
    LET w == MIN(INPUT_BUF_LEN, jsize)
        o == memmem(SubSeq(buf, jsize - w + 1, jsize), separator)
    IN  IF o < 0 THEN -1 ELSE jsize - w + o

\* lines 376-377: sep - jpeg_buf after the windowed search, -1 for NULL
FindSep(buf, jsize, separator) ==
    LET w == MIN(2 * INPUT_BUF_LEN, jsize)
        o == memmem(SubSeq(buf, jsize - w + 1, jsize), separator)
    IN  IF o < 0 THEN -1 ELSE jsize - w + o

\* mutant: the whole separator is skipped in auto mode as well
RemLenWholeSep(jsize, k, auto, seplen) ==
    jsize - k - seplen

\* lines 381, 385: rem_len
RemLen(jsize, k, auto, seplen) ==
    IF auto THEN jsize - k - 2 ELSE jsize - k - seplen

\* lines 382, 386: jpeg_size of the frame that is published
FrameSize(k, auto, seplen) ==
    IF auto THEN k + 2 ELSE k

\* line 415: the bytes memmove copies to the start of jpeg_buf
Remainder(buf, k, auto, seplen, rem) ==
    LET from == k + (IF auto THEN 2 ELSE seplen)
    IN  SubSeq(buf, from + 1, from + rem)

\* lines 366-388 and 414-416 with the search of lines 376-377 made over the
\* whole accumulator: what one read does to the accumulator r.buf and to
\* the frames r.published
RefRead(r, chunk, separator, auto) ==
    LET buf == r.buf \o chunk
        n == Len(buf)
        k == memmem(buf, separator)
        len == Len(separator)
    IN  IF Overflows(Len(chunk), Len(r.buf))
        THEN [buf |-> <<>>, published |-> r.published]
        ELSE IF k >= 0
        THEN [buf |-> Remainder(buf, k, auto, len, RemLen(n, k, auto, len)),
              published |-> Append(r.published,
                                   Take(buf, FrameSize(k, auto, len)))]
        ELSE [buf |-> buf, published |-> r.published]

\* ------------------------------------------------------------ state

VARIABLES
    input,            \* bytes stdin has still to deliver
    chunkSizes,       \* sizes read() may return (a short last read aside)
    scenario,         \* history: how the input was built (kind, frames, stream)
    prev,             \* history: trailing bytes of jpeg_buf[0, jpeg_size) that
                      \* the latest read() delivered
    acc0,             \* history: jpeg_size when the latest read() returned
    prev0,            \* history: prev when the latest read() returned
    auto_separator,   \* line 338
    input_separator,  \* line 43
    jpeg_buf,         \* line 51
    jpeg_size,        \* line 52
    sep,              \* line 336, as the offset sep - jpeg_buf
    rem_len,          \* line 337
    running,          \* line 53
    mpc,              \* where the main thread is
    i,                \* line 337, the loop index of main
    client,           \* line 420, and the clients[i] that main is joining
    jpeg_mutex,       \* owner of jpeg_mutex
    clients_mutex,    \* owner of clients_mutex
    clients,          \* line 44, the array
    num_clients,      \* line 45
    cl,               \* the client_t structures, by session
    nconn,            \* connections accepted so far
    backlog,          \* connections the peers still make
    published,        \* history: the frames published, in order
    ref,              \* history: the same reads fed to a segmenter that
                      \* searches its whole accumulator
    oob               \* history: an access outside the clients array happened

vars == <<input, chunkSizes, scenario, prev, acc0, prev0, auto_separator, input_separator, jpeg_buf,
          jpeg_size, sep, rem_len, running, mpc, i, client, jpeg_mutex,
          clients_mutex, clients, num_clients, cl, nconn, backlog,
          published, ref, oob>>

segVars == <<jpeg_buf, jpeg_size, sep, rem_len, prev, acc0, prev0, ref>>
cfgVars == <<chunkSizes, scenario, auto_separator, input_separator>>
regVars == <<clients, num_clients, oob>>

\* the published frame a session would copy: jpeg_buf[0, jpeg_size)
Slot == Take(jpeg_buf, jpeg_size)

\* the sessions in the registry: clients[0 .. num_clients)
Registered == {clients[j] : j \in 1..MIN(num_clients, Len(clients))}

\* main() has returned: the process is gone, and its threads with it
Exited == mpc \in {"done", "failed"}

\* wait_for_client, lines 135-144: a zeroed client_t
NewClient ==
    [pc |-> "greet", running |-> FALSE, jpeg_ready |-> FALSE,
     tmp |-> <<>>, tmp_epoch |-> 0, log |-> <<>>]

NoSession ==
    [pc |-> "none", running |-> FALSE, jpeg_ready |-> FALSE,
     tmp |-> <<>>, tmp_epoch |-> 0, log |-> <<>>]

\* the sizes a read() of the remaining input may return
ReadSizes ==
    LET most == MIN(INPUT_BUF_LEN, Len(input))
        ok == {n \in chunkSizes : n <= most}
    IN  IF ok = {} THEN {most} ELSE ok

\* ------------------------------------------------------------ main thread

\* bye_handler, lines 207-215
Signal ==
    /\ ~Exited
    /\ running
    /\ running' = FALSE
    /\ UNCHANGED <<input, cfgVars, segVars, mpc, i, client, jpeg_mutex,
                   clients_mutex, regVars, cl, nconn, backlog, published>>

\* line 350: while (running)
MainLoopTest ==
    /\ mpc = "loop"
    /\ mpc' = IF running THEN "read" ELSE "close"
    /\ UNCHANGED <<input, cfgVars, segVars, running, i, client, jpeg_mutex,
                   clients_mutex, regVars, cl, nconn, backlog, published>>

\* lines 351-388: a read that returns data, the overflow check, the append,
\* the search and, on a hit, the sizes of the frame and of the remainder
MainRead ==
    /\ mpc = "read"
    /\ Len(input) > 0
    /\ \E size \in ReadSizes :
         LET chunk == Take(input, size)
             buf == Take(jpeg_buf, jpeg_size) \o chunk
             n == jpeg_size + size
             k == FindSep(buf, n, input_separator)
             len == Len(input_separator)
         IN  /\ input' = Drop(input, size)
             /\ acc0' = jpeg_size
             /\ prev0' = prev
             /\ ref' = RefRead(ref, chunk, input_separator, auto_separator)
             /\ IF Overflows(size, jpeg_size)
                THEN /\ jpeg_size' = 0
                     /\ jpeg_buf' = <<>>
                     /\ prev' = 0
                     /\ UNCHANGED <<sep, rem_len, published, i>>
                     /\ mpc' = "loop"
                ELSE IF k >= 0
                THEN /\ jpeg_buf' = buf
                     /\ sep' = k
                     /\ rem_len' = RemLen(n, k, auto_separator, len)
                     /\ jpeg_size' = FrameSize(k, auto_separator, len)
                     /\ published' = Append(published,
                            Take(buf, FrameSize(k, auto_separator, len)))
                     /\ prev' = MIN(size, RemLen(n, k, auto_separator, len))
                     /\ i' = 0
                     /\ mpc' = "mark"
                ELSE /\ jpeg_buf' = buf
                     /\ jpeg_size' = n
                     /\ prev' = size
                     /\ UNCHANGED <<sep, rem_len, published, i>>
                     /\ mpc' = "accept"
    /\ UNCHANGED <<cfgVars, running, client, jpeg_mutex, clients_mutex,
                   regVars, cl, nconn, backlog>>

\* lines 360-364: end of stream
MainReadEOF ==
    /\ mpc = "read"
    /\ Len(input) = 0
    /\ running' = FALSE
    /\ mpc' = "close"
    /\ UNCHANGED <<input, cfgVars, segVars, i, client, jpeg_mutex,
                   clients_mutex, regVars, cl, nconn, backlog, published>>

\* lines 352-355: the read is interrupted by the signal
MainReadEINTR ==
    /\ mpc = "read"
    /\ ~running
    /\ mpc' = "close"
    /\ UNCHANGED <<input, cfgVars, segVars, running, i, client, jpeg_mutex,
                   clients_mutex, regVars, cl, nconn, backlog, published>>

\* lines 357-358: any other read error: return -1
MainReadError ==
    /\ mpc = "read"
    /\ mpc' = "failed"
    /\ UNCHANGED <<input, cfgVars, segVars, running, i, client, jpeg_mutex,
                   clients_mutex, regVars, cl, nconn, backlog, published>>

\* lines 391-393: one turn of the loop that marks the frame ready
MainMarkReady ==
    /\ mpc = "mark"
    /\ IF i < num_clients
       THEN /\ cl' = [cl EXCEPT ![clients[i + 1]].jpeg_ready = TRUE]
            /\ i' = i + 1
            /\ mpc' = "mark"
       ELSE /\ mpc' = "bcast"
            /\ UNCHANGED <<cl, i>>
    /\ UNCHANGED <<input, cfgVars, segVars, running, client, jpeg_mutex,
                   clients_mutex, regVars, nconn, backlog, published>>

\* pthread_cond_broadcast(&jpeg_cond): every waiter leaves the wait and has
\* to take jpeg_mutex again
Broadcast(c) ==
    [c EXCEPT !.pc = IF @ = "wait" THEN "woken" ELSE @]

\* lines 395-398
MainBroadcast ==
    /\ mpc = "bcast"
    /\ cl' = [c \in Clients |-> Broadcast(cl[c])]
    /\ mpc' = "unlock"
    /\ UNCHANGED <<input, cfgVars, segVars, running, i, client, jpeg_mutex,
                   clients_mutex, regVars, nconn, backlog, published>>

\* lines 400-403
MainUnlock ==
    /\ mpc = "unlock"
    /\ jpeg_mutex' = Unlocked
    /\ mpc' = "relock"
    /\ UNCHANGED <<input, cfgVars, segVars, running, i, client,
                   clients_mutex, regVars, cl, nconn, backlog, published>>

\* mutant: the producer takes the mutex back only once every registered
\* client has consumed the frame
MainRelockWhenConsumed ==
    /\ mpc = "relock"
    /\ jpeg_mutex = Unlocked
    /\ \A c \in Registered : ~cl[c].jpeg_ready
    /\ jpeg_mutex' = MainThread
    /\ jpeg_buf' = Remainder(jpeg_buf, sep, auto_separator,
                             Len(input_separator), rem_len)
    /\ jpeg_size' = rem_len
    /\ mpc' = "accept"
    /\ UNCHANGED <<input, cfgVars, sep, rem_len, prev, acc0, prev0, ref,
                   running, i, client,
                   clients_mutex, regVars, cl, nconn, backlog, published>>

\* lines 407-416: after the usleep, take the mutex again and move the
\* remainder to the start of the buffer
MainRelock ==
    /\ mpc = "relock"
    /\ jpeg_mutex = Unlocked
    /\ jpeg_mutex' = MainThread
    /\ jpeg_buf' = Remainder(jpeg_buf, sep, auto_separator,
                             Len(input_separator), rem_len)
    /\ jpeg_size' = rem_len
    /\ mpc' = "accept"
    /\ UNCHANGED <<input, cfgVars, sep, rem_len, prev, acc0, prev0, ref,
                   running, i, client,
                   clients_mutex, regVars, cl, nconn, backlog, published>>

\* lines 420-421, wait_for_client lines 117-124: no connection is pending
MainAcceptNone ==
    /\ mpc = "accept"
    /\ mpc' = "loop"
    /\ UNCHANGED <<input, cfgVars, segVars, running, i, client, jpeg_mutex,
                   clients_mutex, regVars, cl, nconn, backlog, published>>

\* lines 420-425, wait_for_client lines 117-148: a connection is accepted,
\* its client_t is built and its thread is created
MainAccept ==
    /\ mpc = "accept"
    /\ backlog > 0
    /\ nconn < MaxClients
    /\ backlog' = backlog - 1
    /\ nconn' = nconn + 1
    /\ cl' = [cl EXCEPT ![nconn + 1] = NewClient]
    /\ client' = nconn + 1
    /\ mpc' = "lockc"
    /\ UNCHANGED <<input, cfgVars, segVars, running, i, jpeg_mutex,
                   clients_mutex, regVars, published>>

\* lines 427-430
MainLockClients ==
    /\ mpc = "lockc"
    /\ clients_mutex = Unlocked
    /\ clients_mutex' = MainThread
    /\ mpc' = "insert"
    /\ UNCHANGED <<input, cfgVars, segVars, running, i, client, jpeg_mutex,
                   regVars, cl, nconn, backlog, published>>

\* lines 432-440: realloc to num_clients + 1 entries, store at
\* clients[num_clients++], unlock.  With num_clients < 0 the store lands
\* before the array and the array keeps no entry.
MainInsert ==
    /\ mpc = "insert"
    /\ IF num_clients >= 0
       THEN /\ clients' = Append(Take(clients, num_clients), client)
            /\ oob' = oob
       ELSE /\ clients' = <<>>
            /\ oob' = TRUE
    /\ num_clients' = num_clients + 1
    /\ clients_mutex' = Unlocked
    /\ mpc' = "loop"
    /\ UNCHANGED <<input, cfgVars, segVars, running, i, client, jpeg_mutex,
                   cl, nconn, backlog, published>>

\* lines 444-445
MainClose ==
    /\ mpc = "close"
    /\ i' = 0
    /\ mpc' = "stop"
    /\ UNCHANGED <<input, cfgVars, segVars, running, client, jpeg_mutex,
                   clients_mutex, regVars, cl, nconn, backlog, published>>

\* mutant: the session is marked ready but not told to stop
StopClientReadyOnly(c) ==
    [c EXCEPT !.jpeg_ready = TRUE]

\* lines 448-451: one turn of the loop that tells the sessions to stop
StopClient(c) ==
    [c EXCEPT !.running = FALSE, !.jpeg_ready = TRUE]

MainStopClients ==
    /\ mpc = "stop"
    /\ IF i < num_clients
       THEN /\ cl' = [cl EXCEPT ![clients[i + 1]] = StopClient(@)]
            /\ i' = i + 1
            /\ mpc' = "stop"
       ELSE /\ mpc' = "sbcast"
            /\ UNCHANGED <<cl, i>>
    /\ UNCHANGED <<input, cfgVars, segVars, running, client, jpeg_mutex,
                   clients_mutex, regVars, nconn, backlog, published>>

\* lines 453-456
MainShutBroadcast ==
    /\ mpc = "sbcast"
    /\ cl' = [c \in Clients |-> Broadcast(cl[c])]
    /\ mpc' = "sunlock"
    /\ UNCHANGED <<input, cfgVars, segVars, running, i, client, jpeg_mutex,
                   clients_mutex, regVars, nconn, backlog, published>>

\* lines 458-461
MainShutUnlock ==
    /\ mpc = "sunlock"
    /\ jpeg_mutex' = Unlocked
    /\ i' = 0
    /\ mpc' = "join"
    /\ UNCHANGED <<input, cfgVars, segVars, running, client,
                   clients_mutex, regVars, cl, nconn, backlog, published>>

\* lines 463-464: the loop test and the read of clients[i]->thread
MainJoinNext ==
    /\ mpc = "join"
    /\ IF i < num_clients
       THEN /\ client' = clients[i + 1]
            /\ mpc' = "joining"
       ELSE /\ mpc' = "destroy"
            /\ UNCHANGED client
    /\ UNCHANGED <<input, cfgVars, segVars, running, i, jpeg_mutex,
                   clients_mutex, regVars, cl, nconn, backlog, published>>

\* line 464: pthread_join returns once that thread has finished; i++
MainJoined ==
    /\ mpc = "joining"
    /\ cl[client].pc = "finished"
    /\ i' = i + 1
    /\ mpc' = "join"
    /\ UNCHANGED <<input, cfgVars, segVars, running, client, jpeg_mutex,
                   clients_mutex, regVars, cl, nconn, backlog, published>>

\* lines 467-482: return 0
MainReturn ==
    /\ mpc = "destroy"
    /\ mpc' = "done"
    /\ UNCHANGED <<input, cfgVars, segVars, running, i, client, jpeg_mutex,
                   clients_mutex, regVars, cl, nconn, backlog, published>>

\* ------------------------------------------------------------ on_client_exit

\* lines 152-154
ExitLock(c) ==
    /\ ~Exited
    /\ cl[c].pc = "exit"
    /\ clients_mutex = Unlocked
    /\ clients_mutex' = c
    /\ cl' = [cl EXCEPT ![c].pc = "exit_shift"]
    /\ UNCHANGED <<input, cfgVars, segVars, running, mpc, i, client,
                   jpeg_mutex, regVars, nconn, backlog, published>>

\* lines 157-166: the entries after the first clients[i] == client move back
\* by one position; the array keeps its length
ShiftBack(arr, n, c) ==
    LET at == {j \in 1..n : arr[j] = c}
    IN  IF at = {} THEN arr
        ELSE LET first == CHOOSE j \in at : \A k \in at : j <= k
             IN  [j \in 1..Len(arr) |->
                    IF j >= first /\ j < n THEN arr[j + 1] ELSE arr[j]]

ExitShift(c) ==
    /\ ~Exited
    /\ cl[c].pc = "exit_shift"
    /\ clients' = ShiftBack(clients, num_clients, c)
    /\ cl' = [cl EXCEPT ![c].pc = "exit_dec"]
    /\ UNCHANGED <<input, cfgVars, segVars, running, mpc, i, client,
                   jpeg_mutex, clients_mutex, num_clients, oob, nconn,
                   backlog, published>>

\* line 168: --num_clients, whether or not the client was found, and the
\* realloc to the new count
ExitCount(n) == n - 1

ExitDec(c) ==
    /\ ~Exited
    /\ cl[c].pc = "exit_dec"
    /\ num_clients' = ExitCount(num_clients)
    /\ IF ExitCount(num_clients) >= 0
       THEN /\ clients' = Take(clients, ExitCount(num_clients))
            /\ oob' = oob
       ELSE /\ clients' = <<>>
            /\ oob' = TRUE
    /\ cl' = [cl EXCEPT ![c].pc = "exit_unlock"]
    /\ UNCHANGED <<input, cfgVars, segVars, running, mpc, i, client,
                   jpeg_mutex, clients_mutex, nconn, backlog, published>>

\* lines 172-174, and the end of the thread
ExitUnlock(c) ==
    /\ ~Exited
    /\ cl[c].pc = "exit_unlock"
    /\ clients_mutex' = Unlocked
    /\ cl' = [cl EXCEPT ![c].pc = "finished"]
    /\ UNCHANGED <<input, cfgVars, segVars, running, mpc, i, client,
                   jpeg_mutex, regVars, nconn, backlog, published>>

\* ------------------------------------------------------------ client session

\* Greeting: the response preamble is written; the session then raises its
\* running flag (wait_for_client leaves it zeroed) and starts streaming
SessGreetOk(c) ==
    /\ ~Exited
    /\ cl[c].pc = "greet"
    /\ cl' = [cl EXCEPT ![c].pc = "test", ![c].running = TRUE]
    /\ UNCHANGED <<input, cfgVars, segVars, running, mpc, i, client,
                   jpeg_mutex, clients_mutex, regVars, nconn, backlog,
                   published>>

\* Greeting: the write fails
SessGreetFail(c) ==
    /\ ~Exited
    /\ cl[c].pc = "greet"
    /\ cl' = [cl EXCEPT ![c].pc = "exit"]
    /\ UNCHANGED <<input, cfgVars, segVars, running, mpc, i, client,
                   jpeg_mutex, clients_mutex, regVars, nconn, backlog,
                   published>>

\* Streaming: the loop goes on while the session's running flag is set
SessTest(c) ==
    /\ ~Exited
    /\ cl[c].pc = "test"
    /\ cl' = [cl EXCEPT ![c].pc = IF cl[c].running THEN "lock" ELSE "exit"]
    /\ UNCHANGED <<input, cfgVars, segVars, running, mpc, i, client,
                   jpeg_mutex, clients_mutex, regVars, nconn, backlog,
                   published>>

\* subscribe: take jpeg_mutex, at the start of a turn or when leaving the wait
SessLock(c) ==
    /\ ~Exited
    /\ cl[c].pc \in {"lock", "woken"}
    /\ jpeg_mutex = Unlocked
    /\ jpeg_mutex' = c
    /\ cl' = [cl EXCEPT ![c].pc = "locked"]
    /\ UNCHANGED <<input, cfgVars, segVars, running, mpc, i, client,
                   clients_mutex, regVars, nconn, backlog, published>>

\* what a session does with the mutex held: wait for a frame that is not
\* ready; leave when it is told to stop; else copy the slot, clear the flag.
\* In each case the mutex is released.
Taken(c) ==
    IF ~c.jpeg_ready THEN [c EXCEPT !.pc = "wait"]
    ELSE IF ~c.running THEN [c EXCEPT !.pc = "exit"]
    ELSE [c EXCEPT !.pc = "write", !.jpeg_ready = FALSE,
                   !.tmp = Slot, !.tmp_epoch = Len(published)]

SessTake(c) ==
    /\ ~Exited
    /\ cl[c].pc = "locked"
    /\ cl' = [cl EXCEPT ![c] = Taken(@)]
    /\ jpeg_mutex' = Unlocked
    /\ UNCHANGED <<input, cfgVars, segVars, running, mpc, i, client,
                   clients_mutex, regVars, nconn, backlog, published>>

\* the multipart part is written to the socket, outside the mutex
SessWriteOk(c) ==
    /\ ~Exited
    /\ cl[c].pc = "write"
    /\ cl' = [cl EXCEPT ![c].pc = "test",
                        ![c].log = Append(@, cl[c].tmp_epoch)]
    /\ UNCHANGED <<input, cfgVars, segVars, running, mpc, i, client,
                   jpeg_mutex, clients_mutex, regVars, nconn, backlog,
                   published>>

\* the write fails: Closing
SessWriteFail(c) ==
    /\ ~Exited
    /\ cl[c].pc = "write"
    /\ cl' = [cl EXCEPT ![c].pc = "exit"]
    /\ UNCHANGED <<input, cfgVars, segVars, running, mpc, i, client,
                   jpeg_mutex, clients_mutex, regVars, nconn, backlog,
                   published>>

\* ------------------------------------------------------------ specifications

InitProcess ==
    /\ jpeg_buf = <<>>
    /\ jpeg_size = 0
    /\ prev = 0
    /\ acc0 = 0
    /\ prev0 = 0
    /\ sep = -1
    /\ rem_len = 0
    /\ running = TRUE
    /\ mpc = "loop"
    /\ i = 0
    /\ client = 1
    /\ jpeg_mutex = MainThread
    /\ clients_mutex = Unlocked
    /\ clients = <<>>
    /\ num_clients = 0
    /\ cl = [c \in Clients |-> NoSession]
    /\ nconn = 0
    /\ published = <<>>
    /\ ref = [buf |-> <<>>, published |-> <<>>]
    /\ oob = FALSE

\* the stream a|b|c| with the one-byte separator given by -s, read two bytes
\* at a time, while up to MaxClients peers connect
Init ==
    /\ InitProcess
    /\ auto_separator = FALSE
    /\ input_separator = <<124>>
    /\ scenario = [kind |-> "segments", auto |-> FALSE, sep |-> <<124>>,
                    frames |-> <<<<97>>, <<98>>, <<99>>>>,
                    stream |-> <<97, 124, 98, 124, 99, 124>>]
    /\ input = scenario.stream
    /\ chunkSizes = {2}
    /\ backlog = MaxClients

MainStep ==
    \/ MainLoopTest
    \/ MainRead
    \/ MainReadEOF
    \/ MainReadEINTR
    \/ MainReadError
    \/ MainMarkReady
    \/ MainBroadcast
    \/ MainUnlock
    \/ MainRelock
    \/ MainAcceptNone
    \/ MainClose
    \/ MainStopClients
    \/ MainShutBroadcast
    \/ MainShutUnlock
    \/ MainJoinNext
    \/ MainReturn

AcceptStep ==
    \/ MainAccept
    \/ MainLockClients
    \/ MainInsert
    \/ MainJoined

SessStep(c) ==
    \/ SessGreetOk(c)
    \/ SessGreetFail(c)
    \/ SessTest(c)
    \/ SessLock(c)
    \/ SessTake(c)
    \/ SessWriteOk(c)
    \/ SessWriteFail(c)
    \/ ExitLock(c)
    \/ ExitShift(c)
    \/ ExitDec(c)
    \/ ExitUnlock(c)

Next ==
    \/ Signal
    \/ MainStep
    \/ AcceptStep
    \/ \E c \in Clients : SessStep(c)

Spec == Init /\ [][Next]_vars

\* ------------------------------------------------------------ the segmenter alone

\* bounds of the streams
MaxFrames == 3
BlobExtra == 2

Concat(ss) ==
    LET RECURSIVE cat(_)
        cat(n) == IF n = 0 THEN <<>> ELSE cat(n - 1) \o ss[n]
    IN  cat(Len(ss))

Fill(n, b) == [j \in 1..n |-> b]

\* a frame: start of image, body, end of image
JpegFrame(body) == JPEG_START \o body \o JPEG_END

Bodies == {<<>>, <<1>>, <<2, 3>>}

MkStream(kind, auto, separator, frames, stream) ==
    [kind |-> kind, auto |-> auto, sep |-> separator, frames |-> frames,
     stream |-> stream]

AutoSep == JPEG_END \o JPEG_START

\* K valid JPEG frames, one after the other, then EOF
FrameStreams ==
    {MkStream("frames", TRUE, AutoSep, [j \in DOMAIN bs |-> JpegFrame(bs[j])],
              Concat([j \in DOMAIN bs |-> JpegFrame(bs[j])])) :
        bs \in UNION {[1..k -> Bodies] : k \in 1..MaxFrames}}

\* -s separators, and segments that are each followed by the separator, then
\* a tail that is not: aaaa--XYZ--bbbb--XYZ--cccc is one of them
Separators == {<<45, 45>>, <<45, 45, 88, 89, 90, 45, 45>>}
Segments == {<<97, 97, 97, 97>>, <<98, 98, 98, 98>>, <<99>>}
Tails == {<<>>, <<99, 99, 99, 99>>}

SegmentStreams ==
    {MkStream("segments", FALSE, sp, ss,
              Concat([j \in DOMAIN ss |-> ss[j] \o sp]) \o t) :
        sp \in Separators, t \in Tails,
        ss \in UNION {[1..k -> Segments] : k \in 1..(MaxFrames - 1)}}

\* a blob that does not fit the accumulator, then a valid frame and the
\* separator that ends it.  The blob is plain data, or an oversized frame.
Blobs ==
    UNION {{Fill(JPEG_BUF_LEN + d, 7), JpegFrame(Fill(JPEG_BUF_LEN + d - 4, 7))} :
              d \in 0..BlobExtra}

BlobStreams ==
    {MkStream("blob", TRUE, AutoSep, <<JpegFrame(b)>>,
              blob \o JpegFrame(b) \o JPEG_START) :
        blob \in Blobs, b \in Bodies}
    \cup
    {MkStream("blob", FALSE, sp, <<sg>>, blob \o sg \o sp) :
        blob \in Blobs, sg \in Segments, sp \in Separators}

\* one frame of JPEG_BUF_LEN - 3 .. JPEG_BUF_LEN bytes and the separator
\* that ends it
SizedStreams ==
    {MkStream("sized", TRUE, AutoSep, <<JpegFrame(Fill(n - 4, 1))>>,
              JpegFrame(Fill(n - 4, 1)) \o JPEG_START) :
        n \in (JPEG_BUF_LEN - 3)..JPEG_BUF_LEN}
    \cup
    {MkStream("sized", FALSE, sp, <<Fill(n, 1)>>, Fill(n, 1) \o sp) :
        n \in (JPEG_BUF_LEN - 10)..JPEG_BUF_LEN, sp \in Separators}

\* bound of the dense streams
MaxDense == 8

\* one-byte segments, each followed by the one-byte separator '|': a read
\* of INPUT_BUF_LEN bytes delivers several separators at once
DenseStreams ==
    {MkStream("segments", FALSE, <<124>>, [j \in 1..k |-> <<96 + j>>],
              Concat([j \in 1..k |-> <<96 + j, 124>>])) : k \in 1..MaxDense}

SegStreams ==
    FrameStreams \cup SegmentStreams \cup BlobStreams \cup SizedStreams
        \cup DenseStreams

\* stdin delivers one of the streams in reads of any size up to
\* INPUT_BUF_LEN; no peer connects
SegInit ==
    /\ InitProcess
    /\ scenario \in SegStreams
    /\ auto_separator = scenario.auto
    /\ input_separator = scenario.sep
    /\ input = scenario.stream
    /\ chunkSizes = 1..INPUT_BUF_LEN
    /\ backlog = 0

SegNext ==
    \/ Signal
    \/ MainStep

SegSpec == SegInit /\ [][SegNext]_vars

\* what a session does while it holds jpeg_mutex or clients_mutex
CriticalStep(c) ==
    \/ SessTake(c)
    \/ ExitShift(c)
    \/ ExitDec(c)
    \/ ExitUnlock(c)

\* The main thread keeps running and a thread that holds a mutex goes on to
\* release it; a session may stay in a socket write, or anywhere else
\* outside a critical section, for ever.
ProducerSpec ==
    /\ Spec
    /\ WF_vars(MainStep)
    /\ WF_vars(AcceptStep)
    /\ \A c \in Clients : WF_vars(CriticalStep(c))

\* Every thread keeps running: in particular every socket write returns.
FairSpec ==
    /\ Spec
    /\ WF_vars(MainStep)
    /\ WF_vars(AcceptStep)
    /\ \A c \in Clients : WF_vars(SessStep(c))

\* ------------------------------------------------------------ fan-out claims

\* a session thread that exists and has not finished
Alive(c) == cl[c].pc \notin {"none", "finished"}

\* C2: the publication numbers of the frames a session has written to its
\* socket are strictly increasing, so no published frame is written twice to
\* the same client, also after the shutdown path has set jpeg_ready without
\* a new frame.
C2_StrictlyIncreasing ==
    \A c \in Clients :
        \A j \in 1..Len(cl[c].log) :
            /\ cl[c].log[j] >= 0
            /\ j > 1 => cl[c].log[j - 1] < cl[c].log[j]

\* a session that wrote two frames was then stopped by the shutdown path,
\* which set its jpeg_ready again, and has left
C2_Witness ==
    \E c \in Clients :
        /\ Len(cl[c].log) >= 2
        /\ mpc \in {"sunlock", "join", "joining", "destroy", "done"}
        /\ cl[c].pc = "finished"
        /\ cl[c].jpeg_ready
        /\ ~cl[c].running

\* C3: a session that has already written a frame takes, the next time it
\* copies from the slot, the most recently published frame, however many
\* frames were published while it was writing; the frames in between are
\* never copied and so never written.
C3_LatestOnly ==
    [][\A c \in Clients :
          (cl[c].pc = "locked" /\ cl'[c].pc = "write" /\ cl[c].log # <<>>)
              => /\ published # <<>>
                 /\ cl'[c].tmp = published[Len(published)]
                 /\ cl'[c].tmp_epoch = Len(published)]_vars

\* C5: no session exit makes the registry count negative or removes another
\* live session that main has inserted.
Inserted(c) ==
    /\ c <= nconn
    /\ ~(mpc \in {"lockc", "insert"} /\ client = c)

Streaming(c) ==
    cl[c].pc \in {"greet", "test", "lock", "locked", "wait", "woken", "write"}

C5_ExitRemovesOnlyItself ==
    /\ num_clients >= 0
    /\ \A c \in Clients : (Inserted(c) /\ Streaming(c)) => c \in Registered

\* C6: when main returns, the registry is empty and no session thread is
\* still running.
C6_AllJoined ==
    mpc = "done" => /\ num_clients = 0
                    /\ \A c \in Clients : ~Alive(c)

\* C4: after publishing a frame the main thread gets to its next read of
\* stdin, or leaves the loop at line 350 because running was cleared,
\* whatever the sessions do outside their critical sections: it waits for no
\* session to consume the frame or to finish a socket write.
C4_ProducerNeverWaits ==
    (mpc = "mark") ~> (mpc \in {"read", "close"})

\* the main thread is back at the read after a publish while a registered
\* session has not consumed the frame and another one sits in a socket write
C4_Witness ==
    /\ mpc = "read"
    /\ published # <<>>
    /\ \E c \in Registered : cl[c].jpeg_ready /\ Streaming(c)
    /\ \E c \in Clients : cl[c].pc = "write"

\* a session that is registered and is waiting for a frame or about to wait
Subscribed(c) ==
    /\ c \in Registered
    /\ cl[c].running
    /\ cl[c].pc \in {"test", "lock", "locked", "wait", "woken"}

\* C7: once the main loop is left with every session thread registered and
\* waiting for a frame or about to wait, every session leaves and main
\* eventually returns, provided every thread keeps running.
C7_ShutdownTerminates ==
    (mpc = "close" /\ \A c \in Clients : Alive(c) => Subscribed(c))
        ~> (mpc = "done")

\* ------------------------------------------------------------ segmenter claims

\* stdin is at its end and main has returned
Drained == mpc = "done" /\ input = <<>>

\* C1: K concatenated valid JPEG frames followed by EOF are published as
\* exactly those K frames, in order, whatever the sizes of the reads.
C1_AllFramesPublished ==
    (scenario.kind = "frames" /\ Drained) => published = scenario.frames

\* C8: of an oversized blob followed by a valid frame and the separator that
\* ends it, exactly the valid frame is published.
C8_OnlyValidFrame ==
    (scenario.kind = "blob" /\ Drained) => published = scenario.frames

\* C9: a frame of exactly JPEG_BUF_LEN - 1 bytes followed by its separator is
\* published intact in both separator modes, and a frame of JPEG_BUF_LEN
\* bytes is not published.
C9_SizeBoundary ==
    (scenario.kind = "sized" /\ Drained) =>
        /\ Len(scenario.frames[1]) = JPEG_BUF_LEN - 1
               => published = scenario.frames
        /\ Len(scenario.frames[1]) = JPEG_BUF_LEN
               => published = <<>>

C11_EverySegmentPublished ==
    (/\ scenario.kind = "segments"
     /\ Len(input_separator) <= INPUT_BUF_LEN
     /\ Drained) => published = scenario.frames

\* C18: the frames published with the search over the trailing
\* MIN(2 * INPUT_BUF_LEN, jpeg_size) bytes are, after every read, the frames
\* that the segmenter searching its whole accumulator publishes.  Stated
\* for the separators that fit one input buffer.
C18_WindowEqualsWholeSearch ==
    Len(input_separator) <= INPUT_BUF_LEN => published = ref.published

\* C19: on a hit at offset k with n bytes accumulated, the frame published
\* is bytes [0, k + 2) in auto mode and [0, k) in explicit mode, and once
\* the remainder has been moved the accumulator is bytes [k + 2, n),
\* respectively [k + len, n): frame, stripped explicit separator and
\* remainder make up the n bytes again.
C19_SplitOffsets ==
    [][LET len == Len(input_separator)
           n == Len(jpeg_buf')
           k == sep'
           skip == IF auto_separator THEN 0 ELSE len
       IN  /\ (mpc = "read" /\ mpc' = "mark")
               => /\ n = jpeg_size + (Len(input) - Len(input'))
                  /\ SubSeq(jpeg_buf', k + 1, k + len) = input_separator
                  /\ Len(published') = Len(published) + 1
                  /\ published'[Len(published')] =
                         SubSeq(jpeg_buf', 1, IF auto_separator THEN k + 2 ELSE k)
                  /\ jpeg_size' = IF auto_separator THEN k + 2 ELSE k
                  /\ rem_len' =
                         IF auto_separator THEN n - k - 2 ELSE n - k - len
          /\ (mpc = "relock" /\ mpc' = "accept")
               => /\ jpeg_size' = Len(jpeg_buf) - jpeg_size - skip
                  /\ jpeg_buf' = SubSeq(jpeg_buf, jpeg_size + skip + 1,
                                        Len(jpeg_buf))
                  /\ Take(jpeg_buf, jpeg_size)
                       \o (IF auto_separator THEN <<>> ELSE input_separator)
                       \o Take(jpeg_buf', jpeg_size') = jpeg_buf]_vars

\* the remainder of an explicit-mode split has been moved to the start of
\* the accumulator, which became shorter than it was before the read
C19_Witness ==
    /\ mpc = "accept"
    /\ ~auto_separator
    /\ published # <<>>
    /\ jpeg_size = rem_len
    /\ 0 < jpeg_size
    /\ jpeg_size < acc0

\* C20: a chunk of s bytes read with a bytes accumulated, s > JPEG_BUF_LEN -
\* 1 - a, empties the accumulator, is dropped and publishes nothing; any
\* other chunk is appended.  The accumulated size stays in
\* 0 .. JPEG_BUF_LEN - 1 and the remainder of a split is never negative.
C20_OverflowPolicy ==
    [][LET s == Len(input) - Len(input')
           chunk == Take(input, s)
       IN  /\ 0 <= jpeg_size' /\ jpeg_size' <= JPEG_BUF_LEN - 1
           /\ rem_len' >= 0
           /\ Len(jpeg_buf') <= JPEG_BUF_LEN - 1
           /\ (mpc = "read" /\ s > 0 /\ s > JPEG_BUF_LEN - 1 - jpeg_size)
                => /\ jpeg_size' = 0
                   /\ Take(jpeg_buf', jpeg_size') = <<>>
                   /\ published' = published
                   /\ mpc' = "loop"
           /\ (mpc = "read" /\ s > 0 /\ s <= JPEG_BUF_LEN - 1 - jpeg_size)
                => jpeg_buf' = Take(jpeg_buf, jpeg_size) \o chunk]_vars

\* a chunk that did not fit has just emptied an accumulator that held bytes
\* of the oversized blob, before anything was published
C20_Witness ==
    /\ scenario.kind = "blob"
    /\ mpc = "loop"
    /\ published = <<>>
    /\ acc0 > JPEG_BUF_LEN - 1 - INPUT_BUF_LEN
    /\ jpeg_size = 0
    /\ input # <<>>

\* ------------------------------------------------------------ thread claims

Threads == Clients \cup {MainThread}

\* C12: when main has ended, after EOF or after a read error, no session
\* thread is left that was not stopped and joined.
C12_ReadErrorShutsDown ==
    mpc = "failed" => \A c \in Clients : ~Alive(c)

\* C13: while the main thread is in read(STDIN) it does not own jpeg_mutex.
C13_NoMutexDuringRead ==
    mpc = "read" => jpeg_mutex # MainThread

\* C14: no thread owns jpeg_mutex and clients_mutex at the same time.
C14_OneMutexAtATime ==
    \A t \in Threads : ~(jpeg_mutex = t /\ clients_mutex = t)

\* the session is changing the registry in on_client_exit
Removing(c) == cl[c].pc \in {"exit_shift", "exit_dec"}

\* C15: the main thread is in none of its loops over the registry (publish,
\* stop, join) while an exiting session is shifting or reallocating it.
C15_RegistryUnderMutex ==
    mpc \in {"mark", "stop", "join"} => \A c \in Clients : ~Removing(c)

\* C16: a session thread runs on_client_exit only after main has inserted
\* it into the registry.
C16_InsertBeforeSpawn ==
    \A c \in Clients :
        cl[c].pc \in {"exit_shift", "exit_dec", "exit_unlock"} => Inserted(c)

\* C17: whenever the main thread does not own jpeg_mutex and a live
\* session's jpeg_ready is set, the slot jpeg_buf[0, jpeg_size) is the
\* latest published frame.
C17_SlotHoldsFrame ==
    \A c \in Clients :
        (jpeg_mutex # MainThread /\ Alive(c) /\ cl[c].jpeg_ready)
            => /\ published # <<>>
               /\ Slot = published[Len(published)]

====
